---- MODULE Spec2Model ----
(***************************************************************************)
(* FDA Drug Approval Dashboard (FDA4.py): one Streamlit script.  Every     *)
(* user interaction reruns the script from the top: the widgets are read,  *)
(* the dates are validated, the search expression is built, and, when the  *)
(* "Fetch Drug Labels" button was pressed, one GET is sent to the registry *)
(* and its records are reshaped into a table, a monthly count and a CSV.   *)
(*                                                                         *)
(* Python strings are sequences of one-character strings, so that slicing, *)
(* len() and date formatting/parsing are computed rather than assumed.     *)
(***************************************************************************)
EXTENDS Integers, Sequences, FiniteSets, TLC

VARIABLES
    pc,                 \* position of the running script
    start_date,         \* st.sidebar.date_input("Start Date")
    end_date,           \* st.sidebar.date_input("End Date")
    manufacturer_name,  \* st.sidebar.text_input(...)
    generic_name,       \* st.sidebar.text_input(...)
    button,             \* st.sidebar.button("Fetch Drug Labels") in this run
    search_query,       \* the search expression
    params,             \* the request parameters
    sent,               \* the GETs issued in this run (url and params)
    response,           \* what requests.get returned or raised
    exc,                \* the exception in flight or caught
    results,            \* data.get('results', [])
    drug_data,          \* the list of row dicts
    df,                 \* the DataFrame
    monthly_counts,     \* df.groupby('Approval Month').size()
    csv,                \* df.to_csv(index=False)
    shown,              \* the elements this run has put on the page
    error_text,         \* the detail shown by the fetch error message
    clicks,             \* button presses in this session
    issued              \* GETs issued in this session

vars == <<pc, start_date, end_date, manufacturer_name, generic_name, button,
          search_query, params, sent, response, exc, results, drug_data, df,
          monthly_counts, csv, shown, error_text, clicks, issued>>

----------------------------------------------------------------------------
(* Bounds of the model *)

MaxRecords == 2     \* records in one response of the registry
MaxClicks == 2      \* button presses in one session
MaxRows == 4        \* records in the inputs of the row pipeline

----------------------------------------------------------------------------
(* Strings *)

DIGITS == <<"0","1","2","3","4","5","6","7","8","9">>

IsDigit(c) == \E n \in 1..10 : DIGITS[n] = c

DigitVal(c) == (CHOOSE n \in 1..10 : DIGITS[n] = c) - 1

\* s[:n]
Prefix(s, n) == SubSeq(s, 1, IF Len(s) < n THEN Len(s) ELSE n)

NA == <<"N","/","A">>

url == <<"h","t","t","p","s",":","/","/","a","p","i",".","f","d","a",".","g","o","v",
         "/","d","r","u","g","/","l","a","b","e","l",".","j","s","o","n">>

Limit == 500

\* dict.get(k, default)
DictGet(dict, k, default) == IF k \in DOMAIN dict THEN dict[k] ELSE default

EmptyDict == [k \in {} |-> <<>>]

----------------------------------------------------------------------------
(* Dates *)

Date(y, m, d) == [kind |-> "date", y |-> y, m |-> m, d |-> d]

NaT == [kind |-> "NaT"]

\* start_date > end_date on datetime.date
DateAfter(a, b) ==
    \/ a.y > b.y
    \/ a.y = b.y /\ a.m > b.m
    \/ a.y = b.y /\ a.m = b.m /\ a.d > b.d

Pad2(n) == <<DIGITS[(n \div 10) + 1], DIGITS[(n % 10) + 1]>>

Pad4(n) == <<DIGITS[((n \div 1000) % 10) + 1], DIGITS[((n \div 100) % 10) + 1],
             DIGITS[((n \div 10) % 10) + 1], DIGITS[(n % 10) + 1]>>

\* date.strftime("%Y%m%d")
Strftime(dt) == Pad4(dt.y) \o Pad2(dt.m) \o Pad2(dt.d)

IsLeap(y) == (y % 4 = 0 /\ y % 100 # 0) \/ y % 400 = 0

DaysIn(y, m) ==
    IF m = 2 THEN (IF IsLeap(y) THEN 29 ELSE 28)
    ELSE IF m \in {4, 6, 9, 11} THEN 30 ELSE 31

----------------------------------------------------------------------------
(* QueryBuilder: lines 31-54 *)

ManufacturerClause(m) ==
    <<" ","A","N","D"," ","o","p","e","n","f","d","a",".","m","a","n","u","f","a","c",
      "t","u","r","e","r","_","n","a","m","e",":">> \o Prefix(m, 4) \o <<"*">>

GenericExact(g) ==
    <<" ","A","N","D"," ","o","p","e","n","f","d","a",".","g","e","n","e","r","i","c",
      "_","n","a","m","e",".","e","x","a","c","t",":","\"">> \o g \o <<"\"">>

GenericWildcard(g) ==
    <<" ","A","N","D"," ","o","p","e","n","f","d","a",".","g","e","n","e","r","i","c",
      "_","n","a","m","e",":">> \o Prefix(g, 4) \o <<"*">>

\* a build that matches exactly from 4 characters on
BuildQueryOffByOne(s, e, m, g) ==
    <<"e","f","f","e","c","t","i","v","e","_","t","i","m","e",":","[">>
    \o Strftime(s) \o <<" ","T","O"," ">> \o Strftime(e) \o <<"]">>
    \o (IF m # <<>> THEN ManufacturerClause(m) ELSE <<>>)
    \o (IF g # <<>>
        THEN (IF Len(g) >= 4 THEN GenericExact(g) ELSE GenericWildcard(g))
        ELSE <<>>)

BuildQuery(s, e, m, g) ==
    <<"e","f","f","e","c","t","i","v","e","_","t","i","m","e",":","[">>
    \o Strftime(s) \o <<" ","T","O"," ">> \o Strftime(e) \o <<"]">>
    \o (IF m # <<>> THEN ManufacturerClause(m) ELSE <<>>)
    \o (IF g # <<>>
        THEN (IF Len(g) > 4 THEN GenericExact(g) ELSE GenericWildcard(g))
        ELSE <<>>)

----------------------------------------------------------------------------
(* RecordNormalizer: lines 70-77 *)

NameFields == {"brand_name", "generic_name", "manufacturer_name"}

\* drug.get('openfda', {}).get(field, ['N/A'])
FieldSeq(drug, field) == DictGet(DictGet(drug, "openfda", EmptyDict), field, <<NA>>)

\* [0] on an empty list raises IndexError
RaisesIndexError(drug) == \E f \in NameFields : FieldSeq(drug, f) = <<>>

\* a row that looks for the date inside openfda
RowDictNestedTime(drug) ==
    ("Brand Name" :> FieldSeq(drug, "brand_name")[1]) @@
    ("Generic Name" :> FieldSeq(drug, "generic_name")[1]) @@
    ("Manufacturer Name" :> FieldSeq(drug, "manufacturer_name")[1]) @@
    ("Effective Time" :> DictGet(DictGet(drug, "openfda", EmptyDict), "effective_time", NA))

\* lines 72-77: the row dict of one record
RowDict(drug) ==
    ("Brand Name" :> FieldSeq(drug, "brand_name")[1]) @@
    ("Generic Name" :> FieldSeq(drug, "generic_name")[1]) @@
    ("Manufacturer Name" :> FieldSeq(drug, "manufacturer_name")[1]) @@
    ("Effective Time" :> DictGet(drug, "effective_time", NA))

----------------------------------------------------------------------------
(* pd.to_datetime(errors='coerce', format='%Y%m%d'): line 83.               *)
(* The format's regular expression is                                      *)
(*   (\d\d\d\d)(1[0-2]|0[1-9]|[1-9])(3[0-1]|[1-2]\d|0[1-9]|[1-9]| [1-9])   *)
(* matched from the start of the string, first alternative first; text     *)
(* left over after the match, and a day the month does not have, are       *)
(* errors, which errors='coerce' turns into NaT.                           *)

NonZero(c) == IsDigit(c) /\ c # "0"

MatchYear(s) == Len(s) >= 4 /\ \A i \in 1..4 : IsDigit(s[i])

\* the month alternatives of n characters, at position i
MatchMonth(s, i, n) ==
    IF n = 2
    THEN /\ i + 1 <= Len(s)
         /\ \/ s[i] = "1" /\ s[i + 1] \in {"0", "1", "2"}
            \/ s[i] = "0" /\ NonZero(s[i + 1])
    ELSE i <= Len(s) /\ NonZero(s[i])

\* the day alternatives: "dd" two digits, "d" one digit, "sd" a space and a digit
MatchDay(s, i, alt) ==
    CASE alt = "dd" ->
           /\ i + 1 <= Len(s)
           /\ \/ s[i] = "3" /\ s[i + 1] \in {"0", "1"}
              \/ s[i] \in {"1", "2"} /\ IsDigit(s[i + 1])
              \/ s[i] = "0" /\ NonZero(s[i + 1])
      [] alt = "d" -> i <= Len(s) /\ NonZero(s[i])
      [] OTHER -> i + 1 <= Len(s) /\ s[i] = " " /\ NonZero(s[i + 1])

DayLen(alt) == IF alt = "d" THEN 1 ELSE 2

\* the alternatives in the order the regular expression tries them
Alternatives == << <<2, "dd">>, <<2, "d">>, <<2, "sd">>,
                   <<1, "dd">>, <<1, "d">>, <<1, "sd">> >>

Matches(s, k) ==
    /\ MatchMonth(s, 5, Alternatives[k][1])
    /\ MatchDay(s, 5 + Alternatives[k][1], Alternatives[k][2])

Number(s, i, n) ==
    IF n = 2 THEN DigitVal(s[i]) * 10 + DigitVal(s[i + 1]) ELSE DigitVal(s[i])

ToDatetime(s) ==
    IF ~MatchYear(s) \/ ~(\E k \in 1..6 : Matches(s, k)) THEN NaT
    ELSE LET k == CHOOSE j \in 1..6 : Matches(s, j) /\ \A h \in 1..(j - 1) : ~Matches(s, h)
             ml == Alternatives[k][1]
             alt == Alternatives[k][2]
             y == DigitVal(s[1]) * 1000 + DigitVal(s[2]) * 100
                  + DigitVal(s[3]) * 10 + DigitVal(s[4])
             m == Number(s, 5, ml)
             d == IF alt = "sd" THEN DigitVal(s[6 + ml]) ELSE Number(s, 5 + ml, DayLen(alt))
         IN  IF 4 + ml + DayLen(alt) # Len(s) THEN NaT
             ELSE IF y < 1 \/ d > DaysIn(y, m) THEN NaT
             ELSE Date(y, m, d)

\* Series.dt.to_period('M'): line 84
ToPeriod(t) == IF t = NaT THEN NaT ELSE [kind |-> "period", y |-> t.y, m |-> t.m]

----------------------------------------------------------------------------
(* The DataFrame: lines 80-87 *)

\* pd.DataFrame(drug_data): the columns are the keys of the row dicts, in order
DataFrame(data) ==
    [columns |-> <<"Brand Name", "Generic Name", "Manufacturer Name", "Effective Time">>,
     rows |-> data]

HasColumn(frame, c) == \E i \in 1..Len(frame.columns) : frame.columns[i] = c

\* df[c] = values: an existing column is replaced in place, a new one is appended
SetColumn(frame, c, values) ==
    [columns |-> IF HasColumn(frame, c) THEN frame.columns ELSE Append(frame.columns, c),
     rows |-> [i \in 1..Len(frame.rows) |->
                 [k \in DOMAIN frame.rows[i] \cup {c} |->
                     IF k = c THEN values[i] ELSE frame.rows[i][k]]]]

Column(frame, c) == [i \in 1..Len(frame.rows) |-> frame.rows[i][c]]

\* lines 83-84
WithDates(frame) ==
    SetColumn(frame, "Effective Time",
              [i \in 1..Len(frame.rows) |-> ToDatetime(frame.rows[i]["Effective Time"])])

WithMonths(frame) ==
    SetColumn(frame, "Approval Month",
              [i \in 1..Len(frame.rows) |-> ToPeriod(frame.rows[i]["Effective Time"])])

----------------------------------------------------------------------------
(* MonthlyAggregator: df.groupby('Approval Month').size(), line 87.         *)
(* groupby drops the NaT key (dropna=True) and sorts the keys (sort=True). *)

PeriodBefore(a, b) == a.y < b.y \/ (a.y = b.y /\ a.m < b.m)

RECURSIVE SortPeriods(_)
SortPeriods(S) ==
    IF S = {} THEN <<>>
    ELSE LET first == CHOOSE k \in S : \A j \in S : ~PeriodBefore(j, k)
         IN  <<first>> \o SortPeriods(S \ {first})

\* the keys in order of first appearance, as groupby(sort=False) gives them
RECURSIVE FirstSeen(_, _)
FirstSeen(keys, seen) ==
    IF keys = <<>> THEN <<>>
    ELSE IF Head(keys) = NaT \/ Head(keys) \in seen THEN FirstSeen(Tail(keys), seen)
    ELSE <<Head(keys)>> \o FirstSeen(Tail(keys), seen \cup {Head(keys)})

SizeOf(keys, k) == Cardinality({i \in 1..Len(keys) : keys[i] = k})

GroupSizeUnsorted(keys) ==
    LET order == FirstSeen(keys, {})
    IN  [i \in 1..Len(order) |-> [month |-> order[i], count |-> SizeOf(keys, order[i])]]

GroupSize(keys) ==
    LET order == SortPeriods({keys[i] : i \in 1..Len(keys)} \ {NaT})
    IN  [i \in 1..Len(order) |-> [month |-> order[i], count |-> SizeOf(keys, order[i])]]

----------------------------------------------------------------------------
(* df.to_csv(index=False): line 103.  The text is kept as its fields: a     *)
(* header of column names and one line of cells per row.                   *)

CsvCell(c, v) ==
    IF c = "Effective Time"
    THEN (IF v = NaT THEN <<>>
          ELSE Pad4(v.y) \o <<"-">> \o Pad2(v.m) \o <<"-">> \o Pad2(v.d))
    ELSE IF c = "Approval Month"
    THEN (IF v = NaT THEN <<>> ELSE Pad4(v.y) \o <<"-">> \o Pad2(v.m))
    ELSE v

ToCsv(frame) ==
    [header |-> frame.columns,
     lines |-> [i \in 1..Len(frame.rows) |->
                  [j \in 1..Len(frame.columns) |->
                      CsvCell(frame.columns[j], frame.rows[i][frame.columns[j]])]]]

----------------------------------------------------------------------------
(* The inputs: what the user can enter and what the registry can answer *)

DefaultStart == Date(2024, 10, 1)
DefaultEnd == Date(2024, 10, 30)

DateInputs == {DefaultStart, DefaultEnd, Date(2025, 1, 5)}

ManufacturerInputs == {<<>>, <<"P","f","i","z","e","r">>}

GenericInputs == {<<>>, <<"I","b","u","p">>}

\* the wider inputs of the query builder
WideDates == DateInputs \cup {Date(2024, 9, 15), Date(2023, 12, 31)}

WideManufacturers ==
    ManufacturerInputs \cup {<<"P","f">>, <<"P","f","i","z">>, <<"(","O","R",")","x">>}

WideGenerics ==
    GenericInputs \cup {<<"I","b","u">>, <<"I","b","u","p","r">>,
                        <<"I","b","u","p","r","o","f","e","n">>, <<"a"," ","O","R"," ","(","b">>}

Advil == <<"A","d","v","i","l">>

Motrin == <<"M","o","t","r","i","n">>

\* an openfda field: an empty list, one name, two names (or the key is absent)
FieldValues == {<<>>, <<Advil>>, <<Motrin, Advil>>}

OpenFdaValues == UNION {[S -> FieldValues] : S \in SUBSET NameFields}

EffectiveTimes ==
    { <<"2","0","2","4","1","0","0","5">>, <<"2","0","2","4","1","0","2","0">>,
      <<"2","0","2","4","1","1","0","2">>, <<"2","0","2","5","0","1","0","5">>,
      <<"2","0","2","4","1","3","0","1">>, <<"2","0","2","4","0","2","3","0">>,
      <<"2","0","2","4","1","0","5">>, <<"2","0","2","4","1","0","0","5","0">>,
      <<"b","a","d","-","d","a","t","e">>, <<>> }

WithOpenFda(rec, o) == [k \in DOMAIN rec \cup {"openfda"} |-> IF k = "openfda" THEN o ELSE rec[k]]

TimeOnly == {EmptyDict} \cup {[effective_time |-> t] : t \in EffectiveTimes}

\* every raw record over the field values above
AllRecords == TimeOnly \cup {WithOpenFda(r, o) : r \in TimeOnly, o \in OpenFdaValues}

\* the records that differ in their date only
DatedRecords ==
    {EmptyDict} \cup
    {[effective_time |-> t] :
        t \in { <<"2","0","2","4","1","0","0","5">>, <<"2","0","2","4","1","0","2","0">>,
                <<"2","0","2","4","1","1","0","2">>, <<"2","0","2","5","0","1","0","5">>,
                <<"b","a","d","-","d","a","t","e">> }}

\* the records the registry answers with in a whole run
RegistryRecords ==
    { [openfda |-> [brand_name |-> <<Advil>>, generic_name |-> <<Motrin>>, manufacturer_name |-> <<Advil>>],
       effective_time |-> <<"2","0","2","4","1","0","0","5">>],
      [openfda |-> [brand_name |-> <<Motrin, Advil>>],
       effective_time |-> <<"2","0","2","4","1","1","0","2">>],
      [openfda |-> [brand_name |-> <<>>, generic_name |-> <<Motrin>>],
       effective_time |-> <<"2","0","2","4","1","0","2","0">>],
      [openfda |-> EmptyDict, effective_time |-> <<"b","a","d","-","d","a","t","e">>],
      EmptyDict }

SeqsUpTo(S, n) == UNION {[1..k -> S] : k \in 0..n}

\* the JSON bodies of a success: no results key, or a results array
Bodies == {EmptyDict} \cup {[results |-> rs] : rs \in SeqsUpTo(RegistryRecords, MaxRecords)}

NoResponse == [kind |-> "none"]

\* requests.get: a transport failure, or a response with a status and a body
Responses ==
    {[kind |-> "transport", detail |-> "ConnectionError"]}
    \cup {[kind |-> "http", status |-> st, detail |-> "HTTPError"] : st \in {404, 500}}
    \cup {[kind |-> "http", status |-> 200, json |-> FALSE]}
    \cup {[kind |-> "http", status |-> 200, json |-> TRUE, data |-> b] : b \in Bodies}

NoExc == [type |-> "none"]

NoParams == EmptyDict

NoFrame == [columns |-> <<>>, rows |-> <<>>]

NoCsv == [header |-> <<>>, lines |-> <<>>]

----------------------------------------------------------------------------
(* The script, one run per user interaction *)

\* the state a run starts from: nothing built, nothing sent, nothing shown
FreshRun ==
    /\ pc' = "run"
    /\ search_query' = <<>>
    /\ params' = NoParams
    /\ sent' = <<>>
    /\ response' = NoResponse
    /\ exc' = NoExc
    /\ results' = <<>>
    /\ drug_data' = <<>>
    /\ df' = NoFrame
    /\ monthly_counts' = <<>>
    /\ csv' = NoCsv
    /\ shown' = {}
    /\ error_text' = ""

RunOver == pc \in {"done", "crashed"}

\* the user changes the sidebar inputs: the script reruns with the button unpressed
EditInputs ==
    /\ RunOver
    /\ \E s \in DateInputs, e \in DateInputs,
          m \in ManufacturerInputs, g \in GenericInputs :
            /\ start_date' = s
            /\ end_date' = e
            /\ manufacturer_name' = m
            /\ generic_name' = g
    /\ button' = FALSE
    /\ FreshRun
    /\ UNCHANGED <<clicks, issued>>

\* the user presses "Fetch Drug Labels": the script reruns with the button pressed
PressButton ==
    /\ RunOver
    /\ clicks < MaxClicks
    /\ clicks' = clicks + 1
    /\ button' = TRUE
    /\ FreshRun
    /\ UNCHANGED <<start_date, end_date, manufacturer_name, generic_name, issued>>

\* lines 27-54 without the date check
ValidateUnchecked ==
    /\ pc = "run"
    /\ search_query' = BuildQuery(start_date, end_date, manufacturer_name, generic_name)
    /\ params' = [search |-> search_query', limit |-> Limit]
    /\ pc' = "button"
    /\ UNCHANGED <<start_date, end_date, manufacturer_name, generic_name, button, sent,
                   response, exc, results, drug_data, df, monthly_counts, csv, shown,
                   error_text, clicks, issued>>

\* lines 27-54: the date check, then the search expression and the parameters
Validate ==
    /\ pc = "run"
    /\ IF DateAfter(start_date, end_date)
       THEN /\ shown' = shown \cup {"validation_error"}
            /\ pc' = "done"
            /\ UNCHANGED <<search_query, params>>
       ELSE /\ search_query' = BuildQuery(start_date, end_date,
                                          manufacturer_name, generic_name)
            /\ params' = [search |-> search_query', limit |-> Limit]
            /\ pc' = "button"
            /\ UNCHANGED shown
    /\ UNCHANGED <<start_date, end_date, manufacturer_name, generic_name, button, sent,
                   response, exc, results, drug_data, df, monthly_counts, csv,
                   error_text, clicks, issued>>

\* line 57: the rest of the script runs only when the button was pressed
FetchButton ==
    /\ pc = "button"
    /\ pc' = IF button THEN "get" ELSE "done"
    /\ UNCHANGED <<start_date, end_date, manufacturer_name, generic_name, button,
                   search_query, params, sent, response, exc, results, drug_data, df,
                   monthly_counts, csv, shown, error_text, clicks, issued>>

\* raise_for_status raises for the statuses 400..599
IsErrorStatus(st) == 400 <= st /\ st < 600

Failed(r) == r.kind = "transport" \/ IsErrorStatus(r.status)

\* lines 60-61 with a second attempt after a failure
GetRetry ==
    /\ pc = "get"
    /\ \E r \in Responses :
        /\ response' = r
        /\ IF Failed(r)
           THEN /\ sent' = sent \o <<[url |-> url, params |-> params],
                                     [url |-> url, params |-> params]>>
                /\ issued' = issued + 2
                /\ exc' = [type |-> "RequestException", detail |-> r.detail]
                /\ pc' = "except"
           ELSE /\ sent' = Append(sent, [url |-> url, params |-> params])
                /\ issued' = issued + 1
                /\ pc' = "json" /\ UNCHANGED exc
    /\ UNCHANGED <<start_date, end_date, manufacturer_name, generic_name, button,
                   search_query, params, results, drug_data, df, monthly_counts, csv,
                   shown, error_text, clicks>>

\* lines 60-61: requests.get and raise_for_status
Get ==
    /\ pc = "get"
    /\ sent' = Append(sent, [url |-> url, params |-> params])
    /\ issued' = issued + 1
    /\ \E r \in Responses :
        /\ response' = r
        /\ IF Failed(r)
           THEN exc' = [type |-> "RequestException", detail |-> r.detail] /\ pc' = "except"
           ELSE pc' = "json" /\ UNCHANGED exc
    /\ UNCHANGED <<start_date, end_date, manufacturer_name, generic_name, button,
                   search_query, params, results, drug_data, df, monthly_counts, csv,
                   shown, error_text, clicks>>


\* lines 64-68 and 110-111 with the empty result reported as a fetch error
ParseJsonEmptyIsError ==
    /\ pc = "json"
    /\ response.json
    /\ results' = DictGet(response.data, "results", <<>>)
    /\ IF results' # <<>>
       THEN pc' = "loop" /\ UNCHANGED <<shown, exc>>
       ELSE /\ shown' = shown \cup {"fetch_error"}
            /\ exc' = [type |-> "RequestException", detail |-> "empty"]
            /\ pc' = "done"
    /\ UNCHANGED <<start_date, end_date, manufacturer_name, generic_name, button,
                   search_query, params, sent, response, drug_data, df,
                   monthly_counts, csv, error_text, clicks, issued>>

\* lines 64-68 and 110-111: response.json(), data.get('results', []) and the
\* branch on the results.  A body that is not JSON makes response.json() raise:
\* a RequestException in the releases of requests that define
\* requests.exceptions.JSONDecodeError, a plain ValueError in the older ones.
ParseJson ==
    /\ pc = "json"
    /\ IF ~response.json
       THEN /\ \/ exc' = [type |-> "RequestException", detail |-> "JSONDecodeError"]
                  /\ pc' = "except"
                  /\ UNCHANGED shown
               \/ exc' = [type |-> "ValueError", detail |-> "JSONDecodeError"]
                  /\ pc' = "crashed"
                  /\ shown' = shown \cup {"exception"}
            /\ UNCHANGED results
       ELSE /\ results' = DictGet(response.data, "results", <<>>)
            /\ IF results' # <<>>
               THEN pc' = "loop" /\ UNCHANGED shown
               ELSE pc' = "done" /\ shown' = shown \cup {"info"}
            /\ UNCHANGED exc
    /\ UNCHANGED <<start_date, end_date, manufacturer_name, generic_name, button,
                   search_query, params, sent, response, drug_data, df,
                   monthly_counts, csv, error_text, clicks, issued>>

\* lines 70-77: one row dict per record.  An IndexError is no RequestException:
\* the except clause of line 113 does not catch it and the run ends with it.
Normalize ==
    /\ pc = "loop"
    /\ IF \E i \in 1..Len(results) : RaisesIndexError(results[i])
       THEN /\ exc' = [type |-> "IndexError", detail |-> "list index out of range"]
            /\ pc' = "crashed"
            /\ shown' = shown \cup {"exception"}
            /\ UNCHANGED drug_data
       ELSE /\ drug_data' = [i \in 1..Len(results) |-> RowDict(results[i])]
            /\ pc' = "frame"
            /\ UNCHANGED <<exc, shown>>
    /\ UNCHANGED <<start_date, end_date, manufacturer_name, generic_name, button,
                   search_query, params, sent, response, results, df,
                   monthly_counts, csv, error_text, clicks, issued>>

\* lines 80-87: the DataFrame, its parsed dates, its months and the monthly counts
Frame ==
    /\ pc = "frame"
    /\ df' = WithMonths(WithDates(DataFrame(drug_data)))
    /\ monthly_counts' = GroupSize(Column(df', "Approval Month"))
    /\ pc' = "display"
    /\ UNCHANGED <<start_date, end_date, manufacturer_name, generic_name, button,
                   search_query, params, sent, response, exc, results, drug_data,
                   csv, shown, error_text, clicks, issued>>

\* lines 90-109: the table, the chart and the download of the CSV
Display ==
    /\ pc = "display"
    /\ csv' = ToCsv(df)
    /\ shown' = shown \cup {"dataframe", "pyplot", "download_button"}
    /\ pc' = "done"
    /\ UNCHANGED <<start_date, end_date, manufacturer_name, generic_name, button,
                   search_query, params, sent, response, exc, results, drug_data, df,
                   monthly_counts, error_text, clicks, issued>>

\* lines 113-114 followed by a table of whatever was fetched
ExceptPartial ==
    /\ pc = "except"
    /\ shown' = shown \cup {"fetch_error", "dataframe"}
    /\ error_text' = exc.detail
    /\ pc' = "done"
    /\ UNCHANGED <<start_date, end_date, manufacturer_name, generic_name, button,
                   search_query, params, sent, response, exc, results, drug_data, df,
                   monthly_counts, csv, clicks, issued>>

\* lines 113-114: the error message with the exception's text
Except ==
    /\ pc = "except"
    /\ shown' = shown \cup {"fetch_error"}
    /\ error_text' = exc.detail
    /\ pc' = "done"
    /\ UNCHANGED <<start_date, end_date, manufacturer_name, generic_name, button,
                   search_query, params, sent, response, exc, results, drug_data, df,
                   monthly_counts, csv, clicks, issued>>

----------------------------------------------------------------------------
(* The session: the first run has the widgets' default values *)

Init ==
    /\ pc = "run"
    /\ start_date = DefaultStart
    /\ end_date = DefaultEnd
    /\ manufacturer_name = <<>>
    /\ generic_name = <<>>
    /\ button = FALSE
    /\ search_query = <<>>
    /\ params = NoParams
    /\ sent = <<>>
    /\ response = NoResponse
    /\ exc = NoExc
    /\ results = <<>>
    /\ drug_data = <<>>
    /\ df = NoFrame
    /\ monthly_counts = <<>>
    /\ csv = NoCsv
    /\ shown = {}
    /\ error_text = ""
    /\ clicks = 0
    /\ issued = 0

Next ==
    \/ EditInputs
    \/ PressButton
    \/ Validate
    \/ FetchButton
    \/ Get
    \/ ParseJson
    \/ Normalize
    \/ Frame
    \/ Display
    \/ Except

Spec == Init /\ [][Next]_vars

----------------------------------------------------------------------------
(* The query builder over the wider inputs: a run up to the request *)

InitQuery ==
    /\ pc = "run"
    /\ start_date \in WideDates
    /\ end_date \in WideDates
    /\ manufacturer_name \in WideManufacturers
    /\ generic_name \in WideGenerics
    /\ button \in BOOLEAN
    /\ search_query = <<>>
    /\ params = NoParams
    /\ sent = <<>>
    /\ response = NoResponse
    /\ exc = NoExc
    /\ results = <<>>
    /\ drug_data = <<>>
    /\ df = NoFrame
    /\ monthly_counts = <<>>
    /\ csv = NoCsv
    /\ shown = {}
    /\ error_text = ""
    /\ clicks = (IF button THEN 1 ELSE 0)
    /\ issued = 0

NextQuery == Validate \/ FetchButton

SpecQuery == InitQuery /\ [][NextQuery]_vars

----------------------------------------------------------------------------
(* The row pipeline over the wider records: a run from line 68, after the   *)
(* default filter was sent and the registry answered with the records      *)

RowInputs ==
    {<<r>> : r \in AllRecords} \cup (SeqsUpTo(DatedRecords, MaxRows) \ {<<>>})

InitRows ==
    /\ pc = "loop"
    /\ start_date = DefaultStart
    /\ end_date = DefaultEnd
    /\ manufacturer_name = <<>>
    /\ generic_name = <<>>
    /\ button = TRUE
    /\ search_query = BuildQuery(DefaultStart, DefaultEnd, <<>>, <<>>)
    /\ params = [search |-> search_query, limit |-> Limit]
    /\ sent = <<[url |-> url, params |-> params]>>
    /\ results \in RowInputs
    /\ response = [kind |-> "http", status |-> 200, json |-> TRUE,
                   data |-> [results |-> results]]
    /\ exc = NoExc
    /\ drug_data = <<>>
    /\ df = NoFrame
    /\ monthly_counts = <<>>
    /\ csv = NoCsv
    /\ shown = {}
    /\ error_text = ""
    /\ clicks = 1
    /\ issued = 1

NextRows == Normalize \/ Frame \/ Display

SpecRows == InitRows /\ [][NextRows]_vars

----------------------------------------------------------------------------
(* Properties.  They state the dates, the outcomes and the expected texts   *)
(* on their own terms, not through the operators of the script above.      *)

\* the day number yyyymmdd of a date
Ordinal(dt) == dt.y * 10000 + dt.m * 100 + dt.d

StartLater == Ordinal(start_date) > Ordinal(end_date)

Outputs == {"dataframe", "pyplot", "download_button"}

RequestFailed ==
    /\ response.kind # "none"
    /\ \/ response.kind = "transport"
       \/ response.kind = "http" /\ response.status # 200

EmptySuccess ==
    /\ response.kind = "http"
    /\ response.status = 200
    /\ response.json
    /\ \/ "results" \notin DOMAIN response.data
       \/ response.data.results = <<>>

(* C1: in a run whose start date is later than its end date no GET is sent, *)
(* button pressed or not, and the run ends with the validation error; a    *)
(* GET is sent only in a run with start <= end and the button pressed.     *)
C1_NoRequestOnInvalidDates ==
    /\ StartLater => /\ sent = <<>>
                     /\ pc \in {"run", "done"}
                     /\ pc = "done" => shown = {"validation_error"}
    /\ sent # <<>> => ~StartLater /\ button
    /\ "validation_error" \in shown => StartLater

C1_Witness ==
    /\ pc = "done"
    /\ StartLater
    /\ button
    /\ sent = <<>>
    /\ "validation_error" \in shown

C4_EmptyResultIsInfo ==
    /\ EmptySuccess => /\ pc \in {"json", "done"}
                       /\ "fetch_error" \notin shown
                       /\ "exception" \notin shown
                       /\ shown \cap Outputs = {}
                       /\ pc = "done" => shown = {"info"}
    /\ "info" \in shown => EmptySuccess /\ ~RequestFailed

C4_Witness ==
    /\ pc = "done"
    /\ response.kind = "http"
    /\ response.status = 200
    /\ response.json
    /\ "results" \notin DOMAIN response.data
    /\ shown = {"info"}

(* C9: a run sends at most one GET, and exactly one once a pressed button   *)
(* with valid dates has passed line 60; the GET carries the built          *)
(* expression as search and limit 500; over the session there are never    *)
(* more GETs than button presses.                                          *)
C9_OneRequestPerFetch ==
    /\ Len(sent) <= 1
    /\ issued <= clicks
    /\ sent # <<>> =>
         /\ button
         /\ sent[1].url = url
         /\ DOMAIN sent[1].params = {"search", "limit"}
         /\ sent[1].params.search = search_query
         /\ search_query # <<>>
         /\ sent[1].params.limit = 500
    /\ (pc \in {"json", "except", "loop", "frame", "display", "crashed"}) => Len(sent) = 1
    /\ (pc = "done" /\ button /\ ~StartLater) => Len(sent) = 1
    /\ (pc = "done" /\ ~button) => sent = <<>>

C9_Witness ==
    /\ pc = "done"
    /\ clicks = 2
    /\ issued = 2
    /\ Len(sent) = 1


----------------------------------------------------------------------------
(* The query builder *)

\* the n decimal digits of k, most significant first
RECURSIVE Decimal(_, _)
Decimal(k, n) == IF n = 0 THEN <<>> ELSE Append(Decimal(k \div 10, n - 1), DIGITS[(k % 10) + 1])

\* at most the first n characters of s
RECURSIVE Take(_, _)
Take(s, n) == IF n = 0 \/ s = <<>> THEN <<>> ELSE <<Head(s)>> \o Take(Tail(s), n - 1)

\* how often the text pat occurs in s
Occurrences(s, pat) ==
    Cardinality({i \in 1..Len(s) : /\ i + Len(pat) - 1 <= Len(s)
                                   /\ SubSeq(s, i, i + Len(pat) - 1) = pat})

AndText == <<" ","A","N","D"," ">>

ManufacturerField ==
    <<"o","p","e","n","f","d","a",".","m","a","n","u","f","a","c","t","u","r","e","r",
      "_","n","a","m","e",":">>

GenericField == <<"o","p","e","n","f","d","a",".","g","e","n","e","r","i","c","_","n","a","m","e">>

ExpectedRange ==
    <<"e","f","f","e","c","t","i","v","e","_","t","i","m","e",":","[">>
    \o Decimal(Ordinal(start_date), 8) \o <<" ","T","O"," ">>
    \o Decimal(Ordinal(end_date), 8) \o <<"]">>

ExpectedManufacturer ==
    IF Len(manufacturer_name) = 0 THEN <<>>
    ELSE AndText \o ManufacturerField \o Take(manufacturer_name, 4) \o <<"*">>

ExpectedGeneric ==
    IF Len(generic_name) = 0 THEN <<>>
    ELSE IF Len(generic_name) > 4
    THEN AndText \o GenericField \o <<".","e","x","a","c","t",":","\"">>
         \o generic_name \o <<"\"">>
    ELSE AndText \o GenericField \o <<":">> \o generic_name \o <<"*">>

\* the text of the user that reaches the expression
PassedText ==
    Take(manufacturer_name, 4) \o <<"|">> \o generic_name

----------------------------------------------------------------------------
(* The rows *)

HasTime(rec) == "effective_time" \in DOMAIN rec

AllDigits(s) == \A i \in 1..Len(s) : IsDigit(s[i])

RECURSIVE Value(_)
Value(s) == IF s = <<>> THEN 0 ELSE Value(SubSeq(s, 1, Len(s) - 1)) * 10 + DigitVal(s[Len(s)])

\* an 8-digit text yyyymmdd that names a day of the calendar
ValidYMD(s) ==
    /\ Len(s) = 8
    /\ AllDigits(s)
    /\ Value(s) \div 10000 >= 1
    /\ (Value(s) \div 100) % 100 \in 1..12
    /\ Value(s) % 100 \in 1..DaysIn(Value(s) \div 10000, (Value(s) \div 100) % 100)

\* a text that is no date in any reading of the format: a character that is no
\* digit, too few or too many characters, or 8 digits that name no day
Unparsable(s) ==
    \/ ~AllDigits(s)
    \/ Len(s) < 6
    \/ Len(s) > 8
    \/ Len(s) = 8 /\ ~ValidYMD(s)

\* the name specified for field f of a record: element 0, or the sentinel
ExpectedName(rec, f) ==
    IF "openfda" \in DOMAIN rec /\ f \in DOMAIN rec.openfda /\ Len(rec.openfda[f]) > 0
    THEN rec.openfda[f][1]
    ELSE <<"N","/","A">>

NamesAsExpected(row, rec) ==
    /\ row["Brand Name"] = ExpectedName(rec, "brand_name")
    /\ row["Generic Name"] = ExpectedName(rec, "generic_name")
    /\ row["Manufacturer Name"] = ExpectedName(rec, "manufacturer_name")

FrameBuilt == pc \in {"display", "done"} /\ df.rows # <<>>

TimeOf(i) == df.rows[i]["Effective Time"]

Dated == {i \in 1..Len(df.rows) : TimeOf(i).kind = "date"}

MonthNo(t) == t.y * 12 + t.m

RECURSIVE SumCounts(_)
SumCounts(mc) == IF mc = <<>> THEN 0 ELSE Head(mc).count + SumCounts(Tail(mc))

C7_MonthlyBuckets ==
    FrameBuilt =>
        /\ \A i \in 1..Len(monthly_counts) : monthly_counts[i].month.kind = "period"
        /\ \A i \in 1..(Len(monthly_counts) - 1) :
              MonthNo(monthly_counts[i].month) < MonthNo(monthly_counts[i + 1].month)
        /\ {MonthNo(monthly_counts[i].month) : i \in 1..Len(monthly_counts)}
             = {MonthNo(TimeOf(j)) : j \in Dated}
        /\ \A i \in 1..Len(monthly_counts) :
              monthly_counts[i].count
                = Cardinality({j \in Dated : MonthNo(TimeOf(j)) = MonthNo(monthly_counts[i].month)})

C7_Witness ==
    /\ pc = "done"
    /\ Len(results) = 4
    /\ TimeOf(1) = [kind |-> "date", y |-> 2024, m |-> 11, d |-> 2]
    /\ TimeOf(2) = [kind |-> "date", y |-> 2024, m |-> 10, d |-> 5]
    /\ TimeOf(3) = [kind |-> "NaT"]
    /\ TimeOf(4) = [kind |-> "date", y |-> 2024, m |-> 10, d |-> 20]
    /\ monthly_counts = << [month |-> [kind |-> "period", y |-> 2024, m |-> 10], count |-> 2],
                           [month |-> [kind |-> "period", y |-> 2024, m |-> 11], count |-> 1] >>


----------------------------------------------------------------------------
(* The outcome of a fetch that got records *)

GotRecords ==
    /\ pc \in {"done", "crashed"}
    /\ response.kind = "http"
    /\ response.status = 200
    /\ response.json
    /\ results # <<>>

HasEmptyList(rec) ==
    /\ "openfda" \in DOMAIN rec
    /\ \E f \in DOMAIN rec.openfda : rec.openfda[f] = <<>>

(* C2: normalizing never fails: each name of a row is element 0 of the      *)
(* record's openfda list when that list is present and non-empty and "N/A" *)
(* otherwise (openfda absent, field absent, list empty), and the fetch     *)
(* reaches the table, the chart and the download.                          *)
C2_NormalizeNeverFails ==
    GotRecords =>
        /\ pc = "done"
        /\ exc.type = "none"
        /\ Outputs \subseteq shown
        /\ Len(drug_data) = Len(results)
        /\ \A i \in 1..Len(results) : NamesAsExpected(drug_data[i], results[i])

\* what holds of the names: the same, for the responses without an empty list
C2_TotalWithoutEmptyLists ==
    (GotRecords /\ \A i \in 1..Len(results) : ~HasEmptyList(results[i])) =>
        /\ pc = "done"
        /\ exc.type = "none"
        /\ Outputs \subseteq shown
        /\ Len(drug_data) = Len(results)
        /\ \A i \in 1..Len(results) : NamesAsExpected(drug_data[i], results[i])

\* and an empty list ends the run with the IndexError, nothing shown
C2_EmptyListRaises ==
    (GotRecords /\ \E i \in 1..Len(results) : HasEmptyList(results[i])) =>
        /\ pc = "crashed"
        /\ exc.type = "IndexError"
        /\ shown = {"exception"}

(* C8: in a fetch that offers the download, the CSV's header is exactly the *)
(* four columns Brand Name, Generic Name, Manufacturer Name, Effective     *)
(* Time, and the CSV has one data line per normalized row.                 *)
C8_CsvFourColumns ==
    "download_button" \in shown =>
        /\ csv.header = <<"Brand Name", "Generic Name", "Manufacturer Name", "Effective Time">>
        /\ Len(csv.lines) = Len(drug_data)
        /\ \A i \in 1..Len(csv.lines) : Len(csv.lines[i]) = 4

\* what the CSV holds: the DataFrame's five columns, one line per row
C8_CsvFiveColumns ==
    "download_button" \in shown =>
        /\ csv.header = <<"Brand Name", "Generic Name", "Manufacturer Name",
                          "Effective Time", "Approval Month">>
        /\ Len(csv.lines) = Len(drug_data)
        /\ \A i \in 1..Len(csv.lines) : Len(csv.lines[i]) = 5

(* C10: every success with a non-empty results array shows a table with one *)
(* row per returned record, in the registry's order, and the monthly       *)
(* counts add up to the number of rows with a non-null effective time.     *)
C10_TableRowsAndCountSum ==
    GotRecords =>
        /\ "dataframe" \in shown
        /\ "pyplot" \in shown
        /\ Len(df.rows) = Len(results)
        /\ \A i \in 1..Len(results) :
              /\ NamesAsExpected(df.rows[i], results[i])
              /\ HasTime(results[i]) /\ ValidYMD(results[i].effective_time)
                   => TimeOf(i).kind = "date"
                      /\ Decimal(Ordinal(TimeOf(i)), 8) = results[i].effective_time
        /\ SumCounts(monthly_counts) = Cardinality(Dated)
        /\ SumCounts(monthly_counts) <= Len(results)

\* what holds of the table: the same, in the runs that show it
C10_WhenTableShown ==
    "dataframe" \in shown =>
        /\ "pyplot" \in shown
        /\ Len(df.rows) = Len(results)
        /\ \A i \in 1..Len(results) :
              /\ NamesAsExpected(df.rows[i], results[i])
              /\ HasTime(results[i]) /\ ValidYMD(results[i].effective_time)
                   => TimeOf(i).kind = "date"
                      /\ Decimal(Ordinal(TimeOf(i)), 8) = results[i].effective_time
        /\ SumCounts(monthly_counts) = Cardinality(Dated)
        /\ SumCounts(monthly_counts) <= Len(results)

====
